---------------------------- MODULE Spec2Model ----------------------------
(***************************************************************************)
(* Model of the szurubooru-client query-token layer (src/tokens.rs) and of *)
(* the conversion of a PagedSearchResult into PyPagedSearchResult          *)
(* (src/py/mod.rs).                                                        *)
(*                                                                         *)
(* A Rust String is modelled as a sequence of one-character strings, so    *)
(* that escaping, prefix tests, slicing and joining are computed character *)
(* by character as the code computes them.                                 *)
(***************************************************************************)
EXTENDS Integers, Sequences, FiniteSets, TLC

(***************************************************************************)
(* Bounds of the model.                                                    *)
(***************************************************************************)
\* longest arbitrary String passed as a value (or as an anonymous key)
MaxLen == 3
\* longest arbitrary String passed as the key of QueryToken::token
MaxKeyLen == 3
\* longest Vec<QueryToken> rendered by to_query_string
MaxVec == 3
\* most items held by a PagedSearchResult
MaxItems == 3
\* largest value of the u32 fields offset and total
MaxScalar == 1
\* largest value of the u32 field limit
MaxLimit == 2

(***************************************************************************)
(* The token catalogs: every enum of tokens.rs, each variant spelled as in *)
(* the source.                                                             *)
(***************************************************************************)
TagNamedToken ==
    { <<"N","a","m","e">>,
      <<"C","a","t","e","g","o","r","y">>,
      <<"C","r","e","a","t","i","o","n","D","a","t","e">>,
      <<"L","a","s","t","E","d","i","t","D","a","t","e">>,
      <<"L","a","s","t","E","d","i","t","T","i","m","e">>,
      <<"E","d","i","t","D","a","t","e">>,
      <<"E","d","i","t","T","i","m","e">>,
      <<"U","s","a","g","e","s">>,
      <<"U","s","a","g","e","C","o","u","n","t">>,
      <<"P","o","s","t","C","o","u","n","t">>,
      <<"S","u","g","g","e","s","t","i","o","n","C","o","u","n","t">>,
      <<"I","m","p","l","i","c","a","t","i","o","n","C","o","u","n","t">> }

TagSortToken ==
    { <<"R","a","n","d","o","m">>,
      <<"N","a","m","e">>,
      <<"C","a","t","e","g","o","r","y">>,
      <<"C","r","e","a","t","i","o","n","D","a","t","e">>,
      <<"C","r","e","a","t","i","o","n","T","i","m","e">>,
      <<"L","a","s","t","E","d","i","t","D","a","t","e">>,
      <<"L","a","s","t","E","d","i","t","T","i","m","e">>,
      <<"E","d","i","t","D","a","t","e">>,
      <<"E","d","i","t","T","i","m","e">>,
      <<"U","s","a","g","e","s">>,
      <<"U","s","a","g","e","C","o","u","n","t">>,
      <<"P","o","s","t","C","o","u","n","t">>,
      <<"S","u","g","g","e","s","t","i","o","n","C","o","u","n","t">>,
      <<"I","m","p","l","i","c","a","t","i","o","n","C","o","u","n","t">> }

PostNamedToken ==
    { <<"I","d">>,
      <<"T","a","g">>,
      <<"S","c","o","r","e">>,
      <<"U","p","l","o","a","d","e","r">>,
      <<"U","p","l","o","a","d">>,
      <<"S","u","b","m","i","t">>,
      <<"C","o","m","m","e","n","t">>,
      <<"F","a","v">>,
      <<"P","o","o","l">>,
      <<"T","a","g","C","o","u","n","t">>,
      <<"C","o","m","m","e","n","t","C","o","u","n","t">>,
      <<"F","a","v","C","o","u","n","t">>,
      <<"N","o","t","e","C","o","u","n","t">>,
      <<"N","o","t","e","T","e","x","t">>,
      <<"R","e","l","a","t","i","o","n","C","o","u","n","t">>,
      <<"F","e","a","t","u","r","e","C","o","u","n","t">>,
      <<"T","y","p","e">>,
      <<"C","o","n","t","e","n","t","C","h","e","c","k","s","u","m">>,
      <<"F","i","l","e","S","i","z","e">>,
      <<"I","m","a","g","e","W","i","d","t","h">>,
      <<"I","m","a","g","e","H","e","i","g","h","t">>,
      <<"I","m","a","g","e","A","r","e","a">>,
      <<"I","m","a","g","e","A","s","p","e","c","t","R","a","t","i","o">>,
      <<"I","m","a","g","e","A","r">>,
      <<"W","i","d","t","h">>,
      <<"H","e","i","g","h","t">>,
      <<"A","r">>,
      <<"A","s","p","e","c","t","R","a","t","i","o">>,
      <<"C","r","e","a","t","i","o","n","D","a","t","e">>,
      <<"C","r","e","a","t","i","o","n","T","i","m","e">>,
      <<"D","a","t","e">>,
      <<"T","i","m","e">>,
      <<"L","a","s","t","E","d","i","t","D","a","t","e">>,
      <<"L","a","s","t","E","d","i","t","T","i","m","e">>,
      <<"E","d","i","t","D","a","t","e">>,
      <<"E","d","i","t","T","i","m","e">>,
      <<"C","o","m","m","e","n","t","D","a","t","e">>,
      <<"C","o","m","m","e","n","t","T","i","m","e">>,
      <<"F","a","v","D","a","t","e">>,
      <<"F","a","v","T","i","m","e">>,
      <<"F","e","a","t","u","r","e","D","a","t","e">>,
      <<"F","e","a","t","u","r","e","T","i","m","e">>,
      <<"S","a","f","e","t","y">>,
      <<"R","a","t","i","n","g">> }

PostSortToken ==
    { <<"R","a","n","d","o","m">>,
      <<"I","d">>,
      <<"S","c","o","r","e">>,
      <<"T","a","g","C","o","u","n","t">>,
      <<"C","o","m","m","e","n","t","C","o","u","n","t">>,
      <<"F","a","v","C","o","u","n","t">>,
      <<"N","o","t","e","C","o","u","n","t">>,
      <<"R","e","l","a","t","i","o","n","C","o","u","n","t">>,
      <<"F","e","a","t","u","r","e","C","o","u","n","t">>,
      <<"F","i","l","e","S","i","z","e">>,
      <<"I","m","a","g","e","W","i","d","t","h">>,
      <<"I","m","a","g","e","H","e","i","g","h","t">>,
      <<"I","m","a","g","e","A","r","e","a">>,
      <<"W","i","d","t","h">>,
      <<"H","e","i","g","h","t">>,
      <<"A","r","e","a">>,
      <<"C","r","e","a","t","i","o","n","D","a","t","e">>,
      <<"C","r","e","a","t","i","o","n","T","i","m","e">>,
      <<"D","a","t","e">>,
      <<"T","i","m","e">>,
      <<"L","a","s","t","E","d","i","t","D","a","t","e">>,
      <<"L","a","s","t","E","d","i","t","T","i","m","e">>,
      <<"E","d","i","t","D","a","t","e">>,
      <<"E","d","i","t","T","i","m","e">>,
      <<"C","o","m","m","e","n","t","D","a","t","e">>,
      <<"C","o","m","m","e","n","t","T","i","m","e">>,
      <<"F","a","v","D","a","t","e">>,
      <<"F","a","v","T","i","m","e">>,
      <<"F","e","a","t","u","r","e","D","a","t","e">>,
      <<"F","e","a","t","u","r","e","T","i","m","e">> }

PostSpecialToken ==
    { <<"L","i","k","e","d">>,
      <<"D","i","s","l","i","k","e","d">>,
      <<"F","a","v">>,
      <<"T","u","m","b","l","e","w","e","e","d">> }

PoolNamedToken ==
    { <<"N","a","m","e">>,
      <<"C","a","t","e","g","o","r","y">>,
      <<"C","r","e","a","t","i","o","n","D","a","t","e">>,
      <<"C","r","e","a","t","i","o","n","T","i","m","e">>,
      <<"L","a","s","t","E","d","i","t","D","a","t","e">>,
      <<"L","a","s","t","E","d","i","t","T","i","m","e">>,
      <<"E","d","i","t","D","a","t","e">>,
      <<"E","d","i","t","T","i","m","e">>,
      <<"P","o","s","t","C","o","u","n","t">> }

PoolSortToken ==
    { <<"R","a","n","d","o","m">>,
      <<"N","a","m","e">>,
      <<"C","a","t","e","g","o","r","y">>,
      <<"C","r","e","a","t","i","o","n","D","a","t","e">>,
      <<"C","r","e","a","t","i","o","n","T","i","m","e">>,
      <<"L","a","s","t","E","d","i","t","D","a","t","e">>,
      <<"L","a","s","t","E","d","i","t","T","i","m","e">>,
      <<"E","d","i","t","D","a","t","e">>,
      <<"E","d","i","t","T","i","m","e">>,
      <<"P","o","s","t","C","o","u","n","t">> }

CommentNamedToken ==
    { <<"I","d">>,
      <<"P","o","s","t">>,
      <<"U","s","e","r">>,
      <<"A","u","t","h","o","r">>,
      <<"T","e","x","t">>,
      <<"C","r","e","a","t","i","o","n","D","a","t","e">>,
      <<"C","r","e","a","t","i","o","n","T","i","m","e">>,
      <<"L","a","s","t","E","d","i","t","D","a","t","e">>,
      <<"L","a","s","t","E","d","i","t","T","i","m","e">>,
      <<"E","d","i","t","D","a","t","e">>,
      <<"E","d","i","t","T","i","m","e">> }

CommentSortToken ==
    { <<"R","a","n","d","o","m">>,
      <<"U","s","e","r">>,
      <<"A","u","t","h","o","r">>,
      <<"P","o","s","t">>,
      <<"C","r","e","a","t","i","o","n","D","a","t","e">>,
      <<"C","r","e","a","t","i","o","n","T","i","m","e">>,
      <<"L","a","s","t","E","d","i","t","D","a","t","e">>,
      <<"L","a","s","t","E","d","i","t","T","i","m","e">>,
      <<"E","d","i","t","D","a","t","e">>,
      <<"E","d","i","t","T","i","m","e">> }

UserNamedToken ==
    { <<"N","a","m","e">>,
      <<"C","r","e","a","t","i","o","n","D","a","t","e">>,
      <<"C","r","e","a","t","i","o","n","T","i","m","e">>,
      <<"L","a","s","t","L","o","g","i","n","D","a","t","e">>,
      <<"L","a","s","t","L","o","g","i","n","T","i","m","e">>,
      <<"L","o","g","i","n","D","a","t","e">>,
      <<"L","o","g","i","n","T","i","m","e">> }

UserSortToken ==
    { <<"R","a","n","d","o","m">>,
      <<"N","a","m","e">>,
      <<"C","r","e","a","t","i","o","n","D","a","t","e">>,
      <<"C","r","e","a","t","i","o","n","T","i","m","e">>,
      <<"L","a","s","t","L","o","g","i","n","D","a","t","e">>,
      <<"L","a","s","t","L","o","g","i","n","T","i","m","e">>,
      <<"L","o","g","i","n","D","a","t","e">>,
      <<"L","o","g","i","n","T","i","m","e">> }

SnapshotNamedToken ==
    { <<"T","y","p","e">>,
      <<"I","d">>,
      <<"D","a","t","e">>,
      <<"T","i","m","e">>,
      <<"O","p","e","r","a","t","i","o","n">>,
      <<"U","s","e","r">> }

Catalog ==
    [ TagNamedToken      |-> TagNamedToken,
      TagSortToken       |-> TagSortToken,
      PostNamedToken     |-> PostNamedToken,
      PostSortToken      |-> PostSortToken,
      PostSpecialToken   |-> PostSpecialToken,
      PoolNamedToken     |-> PoolNamedToken,
      PoolSortToken      |-> PoolSortToken,
      CommentNamedToken  |-> CommentNamedToken,
      CommentSortToken   |-> CommentSortToken,
      UserNamedToken     |-> UserNamedToken,
      UserSortToken      |-> UserSortToken,
      SnapshotNamedToken |-> SnapshotNamedToken ]

Catalogs == DOMAIN Catalog

\* the three marker traits
Traits == {"NamedToken", "SortableToken", "SpecialToken"}

\* every `impl <trait> for <catalog> {}` of tokens.rs, as <<trait, catalog>>
Impls ==
    { <<"NamedToken",    "TagNamedToken">>,
      <<"SortableToken", "TagSortToken">>,
      <<"NamedToken",    "PostNamedToken">>,
      <<"SortableToken", "PostSortToken">>,
      <<"SpecialToken",  "PostSpecialToken">>,
      <<"NamedToken",    "PoolNamedToken">>,
      <<"SortableToken", "PoolSortToken">>,
      <<"NamedToken",    "CommentNamedToken">>,
      <<"SortableToken", "CommentSortToken">>,
      <<"NamedToken",    "UserNamedToken">>,
      <<"SortableToken", "UserNamedToken">>,
      <<"NamedToken",    "SnapshotNamedToken">> }

\* the traits a catalog implements
ClassesOf(c) == { t \in Traits : <<t, c>> \in Impls }

(***************************************************************************)
(* AsRef<str> of a catalog variant: strum's serialize_all = "kebab-case".  *)
(***************************************************************************)
Lower ==
    ("A" :> "a") @@ ("B" :> "b") @@ ("C" :> "c") @@ ("D" :> "d") @@
    ("E" :> "e") @@ ("F" :> "f") @@ ("G" :> "g") @@ ("H" :> "h") @@
    ("I" :> "i") @@ ("J" :> "j") @@ ("K" :> "k") @@ ("L" :> "l") @@
    ("M" :> "m") @@ ("N" :> "n") @@ ("O" :> "o") @@ ("P" :> "p") @@
    ("Q" :> "q") @@ ("R" :> "r") @@ ("S" :> "s") @@ ("T" :> "t") @@
    ("U" :> "u") @@ ("V" :> "v") @@ ("W" :> "w") @@ ("X" :> "x") @@
    ("Y" :> "y") @@ ("Z" :> "z")

\* each upper-case letter starts a word: words are lower-cased and joined by '-'
RECURSIVE KebabCase(_)
KebabCase(name) ==
    IF name = << >> THEN << >>
    ELSE LET c == name[Len(name)]
             front == SubSeq(name, 1, Len(name) - 1)
         IN  IF c \in DOMAIN Lower
             THEN KebabCase(front) \o (IF front = << >> THEN << >> ELSE <<"-">>)
                                   \o <<Lower[c]>>
             ELSE KebabCase(front) \o <<c>>

(***************************************************************************)
(* An argument of type impl AsRef<str>: a plain String, or a variant of    *)
(* one of the catalogs.                                                    *)
(***************************************************************************)
Str(s) == [type |-> "String", s |-> s]

CatalogArgs == UNION { { [type |-> c, s |-> v] : v \in Catalog[c] } : c \in Catalogs }

\* key.as_ref() / value.as_ref()
AsRefStr(a) == IF a.type = "String" THEN a.s ELSE KebabCase(a.s)

(***************************************************************************)
(* Strings.                                                                *)
(***************************************************************************)
Alphabet == {"a", ":", "-", "\\"}
KeyAlphabet == {"a", "-"}

StringsOver(A, n) == UNION { [1..k -> A] : k \in 0..n }

\* str::replace(from, to) for a one-character pattern: every occurrence,
\* left to right
RECURSIVE Replace(_, _, _)
Replace(s, from, to) ==
    IF s = << >> THEN << >>
    ELSE IF Head(s) = from
         THEN to \o Replace(Tail(s), from, to)
         ELSE <<Head(s)>> \o Replace(Tail(s), from, to)

\* str::starts_with for a one-character pattern
StartsWith(s, c) == s # << >> /\ Head(s) = c

\* [String].join(sep)
RECURSIVE Join(_, _)
Join(strs, sep) ==
    IF strs = << >> THEN << >>
    ELSE IF Len(strs) = 1 THEN strs[1]
         ELSE strs[1] \o sep \o Join(Tail(strs), sep)

(***************************************************************************)
(* QueryToken and its operations.                                          *)
(***************************************************************************)
QueryToken(k, v) == [key |-> k, value |-> v]

token_colon_only(key, value) ==
    QueryToken(AsRefStr(key), Replace(AsRefStr(value), ":", <<"\\", ":">>))

token_unescaped(key, value) == QueryToken(AsRefStr(key), AsRefStr(value))

token(key, value) ==
    LET escaped == Replace(Replace(AsRefStr(value), ":", <<"\\", ":">>),
                           "-", <<"\\", "-">>)
    IN  QueryToken(AsRefStr(key), escaped)

sort(value) == QueryToken(<<"s", "o", "r", "t">>, AsRefStr(value))

anonymous(key) ==
    LET escaped == Replace(Replace(AsRefStr(key), ":", <<"\\", ":">>),
                           "-", <<"\\", "-">>)
    IN  QueryToken(escaped, << >>)

special(key) == anonymous(key)

negate_strip_all(self) ==
    LET RECURSIVE Strip(_)
        Strip(k) == IF StartsWith(k, "-") THEN Strip(Tail(k)) ELSE k
    IN  QueryToken(IF StartsWith(self.key, "-") THEN Strip(self.key)
                   ELSE <<"-">> \o self.key,
                   self.value)

negate(self) ==
    LET negated_key == IF StartsWith(self.key, "-")
                       THEN SubSeq(self.key, 2, Len(self.key))
                       ELSE <<"-">> \o self.key
    IN  QueryToken(negated_key, self.value)

to_string_always_colon(self) == self.key \o <<":">> \o self.value

\* impl Display for QueryToken
to_string(self) ==
    LET suffix == IF self.value # << >> THEN <<":">> \o self.value ELSE << >>
    IN  self.key \o suffix

to_query_string_no_separator(self) ==
    Join([i \in 1..Len(self) |-> to_string(self[i])], << >>)

\* impl ToQueryString for Vec<QueryToken>
to_query_string(self) ==
    LET query_vec == [i \in 1..Len(self) |-> to_string(self[i])]
    IN  Join(query_vec, <<" ">>)

(***************************************************************************)
(* Inputs.                                                                 *)
(***************************************************************************)
ExampleKeys ==
    { <<"x">>, <<"t", "a", "g">>, <<"s", "c", "o", "r", "e">>, <<"f", "o", "o">> }

ExampleValues ==
    { <<"a", ":", "b", "-", "c">>, <<"r", "e", ":", "z", "e", "r", "o">>,
      <<"c", "a", "t">>, <<"1">>, <<"0", ".", ".">>,
      <<"r", "a", "n", "d", "o", "m">> }

KeyArgs == { Str(s) : s \in StringsOver(KeyAlphabet, MaxKeyLen) \cup ExampleKeys }

ValueArgs == { Str(s) : s \in StringsOver(Alphabet, MaxLen) \cup ExampleValues }

ExampleValueArgs == { Str(s) : s \in ExampleValues \cup {<< >>} }

NoArg == [type |-> "none", s |-> << >>]

\* the tokens a caller puts in a Vec<QueryToken>
QueryPool ==
    { token([type |-> "PostNamedToken",
             s |-> <<"C","o","m","m","e","n","t","C","o","u","n","t">>], Str(<<"1">>)),
      sort([type |-> "PostSortToken", s |-> <<"R","a","n","d","o","m">>]),
      token(Str(<<"s", "c", "o", "r", "e">>), Str(<< >>)),
      negate(anonymous(Str(<<"r", "e", ":", "z", "e", "r", "o">>))),
      anonymous(Str(<<" ", "a", " ">>)),
      anonymous(Str(<< >>)) }

\* the decoded items of a page, and the queries that produced it
Items == {"post1", "post2"}
Queries == { <<"a">>, <<"s", "o", "r", "t", ":", "i", "d">> }

\* PagedSearchResult<T>: plain fields, filled in by the decoder
PagedSearchResult ==
    [ query : Queries, offset : 0..MaxScalar, limit : 0..MaxLimit,
      total : 0..MaxScalar, results : StringsOver(Items, MaxItems) ]

\* v.into_py(py): the Python object made from a native item
IntoPy(v) == [ob_type |-> "PyObject", from |-> v]

\* the thread that converts, and another thread of the Python runtime
Converters == {"t1"}
HostThreads == {"py"}
Threads == Converters \cup HostThreads
Free == "free"

(***************************************************************************)
(* State.  An Option is a sequence of length 0 (None) or 1 (Some).         *)
(***************************************************************************)
VARIABLES
    tok,      \* the QueryToken the caller holds
    origin,   \* the constructor that built it ("none" before any)
    args,     \* the arguments that constructor was given
    recv,     \* the receivers of the negate calls since, the last two kept
    out,      \* Option: the String to_string returned for tok
    vec,      \* the Vec<QueryToken> the caller builds
    qs,       \* Option: the String to_query_string returned for vec
    gil,      \* the holder of the GIL, or Free
    pc,       \* where each thread is
    value,    \* Option, per thread: the PagedSearchResult passed to from
    iter,     \* per thread: what value.results.into_iter() has yet to yield
    list,     \* Option, per thread: the PyList being built
    rec,      \* Option, per thread: the PyPagedSearchResult
    blocked   \* per thread: the GIL was held by another when from was called

tokVars == <<tok, origin, args, recv, out>>
vecVars == <<vec, qs>>
pyVars == <<gil, pc, value, iter, list, rec, blocked>>
vars == <<tok, origin, args, recv, out, vec, qs, gil, pc, value, iter, list, rec, blocked>>

Init ==
    /\ tok = QueryToken(<< >>, << >>)
    /\ origin = "none"
    /\ args = [key |-> NoArg, value |-> NoArg]
    /\ recv = << >>
    /\ out = << >>
    /\ vec = << >>
    /\ qs = << >>
    /\ gil = Free
    /\ pc = [t \in Threads |-> "idle"]
    /\ value = [t \in Threads |-> << >>]
    /\ iter = [t \in Threads |-> << >>]
    /\ list = [t \in Threads |-> << >>]
    /\ rec = [t \in Threads |-> << >>]
    /\ blocked = [t \in Threads |-> FALSE]

(***************************************************************************)
(* The caller builds, negates and renders one token.                       *)
(***************************************************************************)
\* a constructor returns t to the caller (who holds no token: origin = "none")
Built(name, k, v, t) ==
    /\ tok' = t
    /\ origin' = name
    /\ args' = [key |-> k, value |-> v]
    /\ recv' = << >>
    /\ out' = << >>
    /\ UNCHANGED <<vecVars, pyVars>>

Token ==
    /\ origin = "none"
    /\ \E a \in (KeyArgs \X ValueArgs) \cup (CatalogArgs \X ExampleValueArgs) :
          Built("token", a[1], a[2], token(a[1], a[2]))

Sort ==
    /\ origin = "none"
    /\ \E v \in ValueArgs \cup CatalogArgs : Built("sort", NoArg, v, sort(v))

Anonymous ==
    /\ origin = "none"
    /\ \E k \in ValueArgs \cup CatalogArgs : Built("anonymous", k, NoArg, anonymous(k))

\* key: impl SpecialToken
Special ==
    /\ origin = "none"
    /\ \E k \in { a \in CatalogArgs : <<"SpecialToken", a.type>> \in Impls } :
          Built("special", k, NoArg, special(k))

Negate ==
    /\ origin # "none"
    /\ tok' = negate(tok)
    /\ recv' = IF recv = << >> THEN <<tok>> ELSE <<recv[Len(recv)], tok>>
    /\ out' = << >>
    /\ UNCHANGED <<origin, args, vecVars, pyVars>>

Display ==
    /\ origin # "none"
    /\ out = << >>
    /\ out' = <<to_string(tok)>>
    /\ UNCHANGED <<tok, origin, args, recv, vecVars, pyVars>>

\* the token goes out of scope
Drop ==
    /\ origin # "none"
    /\ tok' = QueryToken(<< >>, << >>)
    /\ origin' = "none"
    /\ args' = [key |-> NoArg, value |-> NoArg]
    /\ recv' = << >>
    /\ out' = << >>
    /\ UNCHANGED <<vecVars, pyVars>>

Next == Token \/ Sort \/ Anonymous \/ Special \/ Negate \/ Display \/ Drop

Spec == Init /\ [][Next]_vars

(***************************************************************************)
(* The caller fills a Vec<QueryToken> and renders it.                      *)
(***************************************************************************)
Push ==
    /\ Len(vec) < MaxVec
    /\ \E q \in QueryPool : vec' = Append(vec, q)
    /\ qs' = << >>
    /\ UNCHANGED <<tokVars, pyVars>>

ToQueryString ==
    /\ qs = << >>
    /\ qs' = <<to_query_string(vec)>>
    /\ UNCHANGED <<vec, tokVars, pyVars>>

NextQuery == Push \/ ToQueryString

SpecQuery == Init /\ [][NextQuery]_vars

(***************************************************************************)
(* impl From<PagedSearchResult<T>> for PyPagedSearchResult, step by step,  *)
(* beside another thread of the Python runtime that takes and releases the *)
(* GIL.                                                                    *)
(***************************************************************************)
\* from(value) is called, value being one of pages
CallWith(t, pages) ==
    /\ pc[t] = "idle"
    /\ \E v \in pages :
          /\ value' = [value EXCEPT ![t] = <<v>>]
          /\ iter' = [iter EXCEPT ![t] = v.results]
    /\ pc' = [pc EXCEPT ![t] = "with_gil"]
    /\ blocked' = [blocked EXCEPT ![t] = (gil # Free)]
    /\ UNCHANGED <<gil, list, rec, tokVars, vecVars>>

\* from(value) is called
Call(t) == CallWith(t, PagedSearchResult)

WithGil_without_waiting(t) ==
    /\ pc[t] = "with_gil"
    /\ gil' = (IF gil = Free THEN t ELSE gil)
    /\ pc' = [pc EXCEPT ![t] = "new_bound"]
    /\ UNCHANGED <<value, iter, list, rec, blocked, tokVars, vecVars>>

\* Python::with_gil: blocks until the GIL is free, then holds it
WithGil(t) ==
    /\ pc[t] = "with_gil"
    /\ gil = Free
    /\ gil' = t
    /\ pc' = [pc EXCEPT ![t] = "new_bound"]
    /\ UNCHANGED <<value, iter, list, rec, blocked, tokVars, vecVars>>

\* PyList::new_bound allocates the list
NewBound(t) ==
    /\ pc[t] = "new_bound"
    /\ list' = [list EXCEPT ![t] = << << >> >>]
    /\ pc' = [pc EXCEPT ![t] = "populate"]
    /\ UNCHANGED <<gil, value, iter, rec, blocked, tokVars, vecVars>>

Populate_in_front(t) ==
    /\ pc[t] = "populate"
    /\ iter[t] # << >>
    /\ list' = [list EXCEPT ![t] = << <<IntoPy(Head(iter[t]))>> \o list[t][1] >>]
    /\ iter' = [iter EXCEPT ![t] = Tail(iter[t])]
    /\ UNCHANGED <<gil, pc, value, rec, blocked, tokVars, vecVars>>

Populate_gil_per_item(t) ==
    /\ pc[t] = "populate"
    /\ iter[t] # << >>
    /\ gil \in {Free, t}
    /\ list' = [list EXCEPT ![t] = <<Append(list[t][1], IntoPy(Head(iter[t])))>>]
    /\ iter' = [iter EXCEPT ![t] = Tail(iter[t])]
    /\ gil' = Free
    /\ UNCHANGED <<pc, value, rec, blocked, tokVars, vecVars>>

\* ... and stores the next mapped item in it
Populate(t) ==
    /\ pc[t] = "populate"
    /\ iter[t] # << >>
    /\ list' = [list EXCEPT ![t] = <<Append(list[t][1], IntoPy(Head(iter[t])))>>]
    /\ iter' = [iter EXCEPT ![t] = Tail(iter[t])]
    /\ UNCHANGED <<gil, pc, value, rec, blocked, tokVars, vecVars>>

Record_limit_from_list(t) ==
    /\ pc[t] = "populate"
    /\ iter[t] = << >>
    /\ rec' = [rec EXCEPT ![t] =
                  << [ query   |-> value[t][1].query,
                       offset  |-> value[t][1].offset,
                       limit   |-> IF Len(list[t][1]) > value[t][1].limit
                                   THEN Len(list[t][1]) ELSE value[t][1].limit,
                       total   |-> value[t][1].total,
                       results |-> list[t][1] ] >>]
    /\ pc' = [pc EXCEPT ![t] = "release"]
    /\ UNCHANGED <<gil, value, iter, list, blocked, tokVars, vecVars>>

\* the closure's result: the record around the finished list
Record(t) ==
    /\ pc[t] = "populate"
    /\ iter[t] = << >>
    /\ rec' = [rec EXCEPT ![t] =
                  << [ query   |-> value[t][1].query,
                       offset  |-> value[t][1].offset,
                       limit   |-> value[t][1].limit,
                       total   |-> value[t][1].total,
                       results |-> list[t][1] ] >>]
    /\ pc' = [pc EXCEPT ![t] = "release"]
    /\ UNCHANGED <<gil, value, iter, list, blocked, tokVars, vecVars>>

\* with_gil returns: the GIL is released and from returns the record
Return(t) ==
    /\ pc[t] = "release"
    /\ gil' = Free
    /\ pc' = [pc EXCEPT ![t] = "done"]
    /\ UNCHANGED <<value, iter, list, rec, blocked, tokVars, vecVars>>

\* another thread of the runtime takes the GIL ...
HostAcquire(h) ==
    /\ pc[h] = "idle"
    /\ gil = Free
    /\ gil' = h
    /\ pc' = [pc EXCEPT ![h] = "running"]
    /\ UNCHANGED <<value, iter, list, rec, blocked, tokVars, vecVars>>

\* ... and gives it up
HostRelease(h) ==
    /\ pc[h] = "running"
    /\ gil' = Free
    /\ pc' = [pc EXCEPT ![h] = "idle"]
    /\ UNCHANGED <<value, iter, list, rec, blocked, tokVars, vecVars>>

NextConv ==
    \/ \E t \in Converters :
          Call(t) \/ WithGil(t) \/ NewBound(t) \/ Populate(t) \/ Record(t) \/ Return(t)
    \/ \E h \in HostThreads : HostAcquire(h) \/ HostRelease(h)

SpecConv == Init /\ [][NextConv]_vars

(***************************************************************************)
(* Two threads that convert, each a page of its own, beside the other      *)
(* thread of the Python runtime: all three need the GIL.                   *)
(***************************************************************************)
ConvertingThreads == {"t1", "t2"}
AllThreads == ConvertingThreads \cup HostThreads

\* the pages the two threads convert: every sequence of items, one setting of
\* the scalar fields
Pages ==
    { v \in PagedSearchResult :
        v.query = <<"a">> /\ v.offset = 0 /\ v.total = MaxScalar /\ v.limit = MaxLimit }

InitThreads ==
    /\ tok = QueryToken(<< >>, << >>)
    /\ origin = "none"
    /\ args = [key |-> NoArg, value |-> NoArg]
    /\ recv = << >>
    /\ out = << >>
    /\ vec = << >>
    /\ qs = << >>
    /\ gil = Free
    /\ pc = [t \in AllThreads |-> "idle"]
    /\ value = [t \in AllThreads |-> << >>]
    /\ iter = [t \in AllThreads |-> << >>]
    /\ list = [t \in AllThreads |-> << >>]
    /\ rec = [t \in AllThreads |-> << >>]
    /\ blocked = [t \in AllThreads |-> FALSE]

CallPage(t) == CallWith(t, Pages)

NextThreads ==
    \/ \E t \in ConvertingThreads :
          CallPage(t) \/ WithGil(t) \/ NewBound(t) \/ Populate(t) \/ Record(t) \/ Return(t)
    \/ \E h \in HostThreads : HostAcquire(h) \/ HostRelease(h)

SpecThreads == InitThreads /\ [][NextThreads]_vars

(***************************************************************************)
(* Properties.                                                             *)
(***************************************************************************)
\* what one character of an escaped value stands for
EscapedChar(c) ==
    IF c = ":" THEN <<"\\", ":">> ELSE IF c = "-" THEN <<"\\", "-">> ELSE <<c>>

\* s, character by character, each ':' and '-' given a backslash
RECURSIVE EscapedString(_)
EscapedString(s) ==
    IF s = << >> THEN << >> ELSE EscapedChar(Head(s)) \o EscapedString(Tail(s))

\* every ':' and every '-' of s comes right after a backslash
Normalized(s) ==
    \A i \in 1..Len(s) : s[i] \in {":", "-"} => (i > 1 /\ s[i - 1] = "\\")

CommentCount ==
    [type |-> "PostNamedToken", s |-> <<"C","o","m","m","e","n","t","C","o","u","n","t">>]

SortRandom == [type |-> "PostSortToken", s |-> <<"R","a","n","d","o","m">>]

\* C1: a token just built by QueryToken::token(k, s) has k's string as its
\* key, unchanged, and as its value s with a backslash put before every ':'
\* and every '-' and every other character kept in place; token("x", "a:b-c")
\* has the value a\:b\-c.
C1_TokenEscapesValue ==
    (origin = "token" /\ recv = << >>) =>
        /\ tok.key = AsRefStr(args.key)
        /\ args.key.type = "String" => tok.key = args.key.s
        /\ tok.value = EscapedString(AsRefStr(args.value))
        /\ Len(tok.value) = Len(args.value.s)
             + Cardinality({i \in 1..Len(args.value.s) : args.value.s[i] \in {":", "-"}})
        /\ (args.key = Str(<<"x">>) /\ args.value = Str(<<"a", ":", "b", "-", "c">>))
             => tok.value = <<"a", "\\", ":", "b", "\\", "-", "c">>

C1_Witness ==
    /\ origin = "token" /\ recv = << >>
    /\ args.key = Str(<<"x">>)
    /\ args.value = Str(<<"a", ":", "b", "-", "c">>)
    /\ tok = QueryToken(<<"x">>, <<"a", "\\", ":", "b", "\\", "-", "c">>)

\* C2: whatever the key of a token t (empty, or beginning with one '-' or
\* with several) and whatever its value, t.negate().negate() has the key and
\* the value of t.
C2_NegateTwice ==
    Len(recv) = 2 => (tok.key = recv[1].key /\ tok.value = recv[1].value)

\* C3 as claimed: the value of every token, however built and however often
\* negated, has a backslash before each of its ':' and '-'.
C3_EveryValueNormalized == origin # "none" => Normalized(tok.value)

\* C3: the value of every token built by token, anonymous or special, however
\* often negated, has a backslash before each of its ':' and '-'; the value of
\* a token built by sort is the argument's string as given, so it is
\* normalized only when that string is.
C3_ValueNormalized ==
    /\ origin \in {"token", "anonymous", "special"} => Normalized(tok.value)
    /\ origin = "sort" => tok.value = AsRefStr(args.value)

C3_Witness ==
    /\ origin = "token"
    /\ recv # << >>
    /\ args.value = Str(<<"-", ":", "a">>)
    /\ tok.value = <<"\\", "-", "\\", ":", "a">>

\* the capability class a catalog is named for
RoleOf ==
    [ TagNamedToken      |-> "NamedToken",
      TagSortToken       |-> "SortableToken",
      PostNamedToken     |-> "NamedToken",
      PostSortToken      |-> "SortableToken",
      PostSpecialToken   |-> "SpecialToken",
      PoolNamedToken     |-> "NamedToken",
      PoolSortToken      |-> "SortableToken",
      CommentNamedToken  |-> "NamedToken",
      CommentSortToken   |-> "SortableToken",
      UserNamedToken     |-> "NamedToken",
      UserSortToken      |-> "SortableToken",
      SnapshotNamedToken |-> "NamedToken" ]

\* C4: every catalog implements exactly one of NamedToken, SortableToken and
\* SpecialToken, the one it is named for: whichever catalog an argument of a
\* constructor comes from, that catalog has its own class and no other.
C4_CapabilityPartition ==
    \A a \in {args.key, args.value} :
        a.type \in Catalogs =>
            /\ Cardinality(ClassesOf(a.type)) = 1
            /\ ClassesOf(a.type) = {RoleOf[a.type]}

\* where the i-th rendering starts in the joined string, less one
RECURSIVE OffsetOf(_, _)
OffsetOf(parts, i) ==
    IF i = 1 THEN 0 ELSE OffsetOf(parts, i - 1) + Len(parts[i - 1]) + 1

\* C5: to_query_string gives the renderings of the tokens of the Vec, each
\* whole and in its place, in the order of the Vec, with exactly one space
\* between two neighbours and nothing before the first or after the last; the
\* empty Vec gives the empty string; [token("comment-count", "1"),
\* sort("random")] gives "comment-count:1 sort:random".
C5_JoinedBySpaces ==
    qs # << >> =>
        LET s == qs[1]
            n == Len(vec)
            parts == [i \in 1..n |-> to_string(vec[i])]
        IN  /\ n = 0 => s = << >>
            /\ n > 0 => Len(s) = OffsetOf(parts, n) + Len(parts[n])
            /\ \A i \in 1..n :
                  /\ SubSeq(s, OffsetOf(parts, i) + 1,
                               OffsetOf(parts, i) + Len(parts[i])) = parts[i]
                  /\ i < n => s[OffsetOf(parts, i) + Len(parts[i]) + 1] = " "
            /\ vec = <<token(CommentCount, Str(<<"1">>)), sort(SortRandom)>> =>
                  s = <<"c","o","m","m","e","n","t","-","c","o","u","n","t",":","1",
                        " ","s","o","r","t",":","r","a","n","d","o","m">>

C5_Witness ==
    /\ Len(vec) = 2
    /\ vec[1] = QueryToken(<<"c","o","m","m","e","n","t","-","c","o","u","n","t">>, <<"1">>)
    /\ vec[2] = QueryToken(<<"s","o","r","t">>, <<"r","a","n","d","o","m">>)
    /\ qs = << <<"c","o","m","m","e","n","t","-","c","o","u","n","t",":","1",
                 " ","s","o","r","t",":","r","a","n","d","o","m">> >>

\* C6: to_string gives the key, then ':' and the value when the value is not
\* empty, and the key alone when it is: token("tag", "cat") renders tag:cat,
\* token("score", "") renders score, sort(PostSortToken::Random) renders
\* sort:random, and an anonymous or special token renders as its escaped key.
C6_Rendering ==
    out # << >> =>
        /\ tok.value # << >> => out[1] = tok.key \o <<":">> \o tok.value
        /\ tok.value = << >> => out[1] = tok.key
        /\ recv = << >> =>
              /\ (origin = "token" /\ args.key = Str(<<"t", "a", "g">>)
                     /\ args.value = Str(<<"c", "a", "t">>))
                    => out[1] = <<"t", "a", "g", ":", "c", "a", "t">>
              /\ (origin = "token" /\ args.key = Str(<<"s", "c", "o", "r", "e">>)
                     /\ args.value = Str(<< >>))
                    => out[1] = <<"s", "c", "o", "r", "e">>
              /\ (origin = "sort" /\ args.value = SortRandom)
                    => out[1] = <<"s","o","r","t",":","r","a","n","d","o","m">>
              /\ origin \in {"anonymous", "special"}
                    => out[1] = EscapedString(AsRefStr(args.key))

C6_Witness ==
    /\ origin = "sort"
    /\ recv = << >>
    /\ args.value = SortRandom
    /\ out = << <<"s","o","r","t",":","r","a","n","d","o","m">> >>

\* C7: negate returns a token whose key is the receiver's with its one
\* leading '-' taken off when it has one and with a '-' put in front when it
\* has none, and whose value is the receiver's; the receiver is as it was; a
\* token whose key has no leading '-' renders after negate as '-' and then
\* what it rendered before.
C7_NegateTogglesPrefix ==
    [][Negate =>
        /\ recv'[Len(recv')] = tok
        /\ StartsWith(tok.key, "-") =>
              /\ Len(tok'.key) = Len(tok.key) - 1
              /\ <<"-">> \o tok'.key = tok.key
        /\ ~StartsWith(tok.key, "-") =>
              /\ tok'.key = <<"-">> \o tok.key
              /\ to_string(tok') = <<"-">> \o to_string(tok)
        /\ tok'.value = tok.value]_vars

C7_Witness ==
    /\ recv = <<token(CommentCount, Str(<<"1">>))>>
    /\ out = << <<"-","c","o","m","m","e","n","t","-","c","o","u","n","t",":","1">> >>

\* C8: the record from returns for a PagedSearchResult of N items (N = 0
\* included) has N results, the i-th being what into_py makes of the i-th
\* item, and the query, offset, limit and total of the PagedSearchResult.
C8_ConversionPreserves ==
    \A t \in Converters :
        pc[t] = "done" =>
            /\ Len(rec[t]) = 1
            /\ LET r == rec[t][1]
                   v == value[t][1]
               IN  /\ Len(r.results) = Len(v.results)
                   /\ \A i \in 1..Len(v.results) : r.results[i] = IntoPy(v.results[i])
                   /\ r.query = v.query
                   /\ r.offset = v.offset
                   /\ r.limit = v.limit
                   /\ r.total = v.total

C8_Witness ==
    \E t \in Converters :
        /\ pc[t] = "done"
        /\ value[t][1].results = <<"post1", "post2", "post2">>
        /\ rec[t][1].results = <<IntoPy("post1"), IntoPy("post2"), IntoPy("post2")>>
        /\ rec[t][1].offset = 1
        /\ rec[t][1].total = 0

\* C9 as claimed: a conversion called while the GIL is not to be had does not
\* wait for it and never yields a record.
C9_FailsWithoutWaiting ==
    \A t \in Converters :
        blocked[t] => (pc[t] # "with_gil" /\ rec[t] = << >>)

\* C9: a conversion called while another thread holds the GIL waits in
\* with_gil until the GIL is free, and from has no error outcome: while it
\* waits no PyList is allocated and no record exists, it works on the list
\* and the record only while it holds the GIL, and the record it returns in
\* the end holds every item.
C9_WaitsForTheGil ==
    \A t \in Converters :
        /\ pc[t] \in {"idle", "with_gil", "new_bound", "populate", "release", "done"}
        /\ pc[t] \in {"idle", "with_gil"} => (list[t] = << >> /\ rec[t] = << >>)
        /\ (pc[t] = "with_gil" /\ gil # Free) => gil \in Threads \ {t}
        /\ pc[t] \in {"new_bound", "populate", "release"} => gil = t
        /\ pc[t] \in {"new_bound", "populate"} => rec[t] = << >>
        /\ (blocked[t] /\ pc[t] = "done") =>
              /\ Len(rec[t]) = 1
              /\ Len(rec[t][1].results) = Len(value[t][1].results)

C9_Witness ==
    \E t \in Converters :
        /\ blocked[t]
        /\ pc[t] = "done"
        /\ Len(value[t][1].results) = MaxItems
        /\ Len(rec[t][1].results) = MaxItems

\* C10 as claimed: once a conversion is done, the PagedSearchResult it was
\* given and the record it returned both have at most limit results.
C10_AtMostLimitResults ==
    \A t \in Converters :
        pc[t] = "done" =>
            /\ Len(value[t][1].results) <= value[t][1].limit
            /\ Len(rec[t][1].results) <= rec[t][1].limit

\* C10: from neither checks nor establishes results.length <= limit: the
\* record has the limit of the PagedSearchResult and as many results, so it
\* has at most limit results exactly when the PagedSearchResult has; one of
\* limit 2 and three items is converted into a record of limit 2 and three
\* results.
C10_LimitCarriedOver ==
    \A t \in Converters :
        rec[t] # << >> =>
            LET r == rec[t][1]
                v == value[t][1]
            IN  /\ r.limit = v.limit
                /\ Len(r.results) = Len(v.results)
                /\ (Len(r.results) <= r.limit) <=> (Len(v.results) <= v.limit)
                /\ (v.limit = 2 /\ Len(v.results) = 3) =>
                      (r.limit = 2 /\ Len(r.results) = 3)

C10_Witness ==
    \E t \in Converters :
        /\ pc[t] = "done"
        /\ value[t][1].limit = 2
        /\ Len(value[t][1].results) = 3
        /\ rec[t][1].limit = 2
        /\ Len(rec[t][1].results) = 3

\* the steps of from that run inside with_gil
InsideWithGil(t) == pc[t] \in {"new_bound", "populate", "release"}

\* the items the conversion of t has to put in its list
ItemsToMap(t) == Len(value[t][1].results)

\* the PyList of t exists and lacks items
ListIncomplete(t) == list[t] # << >> /\ Len(list[t][1]) < ItemsToMap(t)

\* C11: among several threads that need the GIL, a conversion takes the GIL
\* once, before its list exists, and gives it up only when the record of all
\* N items and the four scalar fields is built: while its list has fewer than
\* N items it holds the GIL, no other thread is at a step that needs the GIL
\* (no other conversion inside with_gil, no other thread running), and
\* whichever other thread holds the GIL finds the list and the record of that
\* conversion absent or with all N items.
C11_GilHeldThroughout ==
    /\ [](\A t \in ConvertingThreads :
            /\ InsideWithGil(t) => gil = t
            /\ ListIncomplete(t) => (gil = t /\ pc[t] = "populate")
            /\ InsideWithGil(t) =>
                 \A u \in AllThreads \ {t} : ~InsideWithGil(u) /\ pc[u] # "running"
            /\ gil # t =>
                 /\ list[t] = << >> \/ Len(list[t][1]) = ItemsToMap(t)
                 /\ rec[t] = << >> \/
                      /\ Len(rec[t][1].results) = ItemsToMap(t)
                      /\ rec[t][1].query = value[t][1].query
                      /\ rec[t][1].offset = value[t][1].offset
                      /\ rec[t][1].limit = value[t][1].limit
                      /\ rec[t][1].total = value[t][1].total)
    /\ [][\A t \in ConvertingThreads :
            \* taken before the list exists, by the thread waiting in with_gil
            /\ (gil # t /\ gil' = t) =>
                 (gil = Free /\ pc[t] = "with_gil" /\ list[t] = << >> /\ rec[t] = << >>)
            \* given up with the record built, and not taken again
            /\ (gil = t /\ gil' # t) =>
                 /\ gil' = Free
                 /\ pc'[t] = "done"
                 /\ Len(rec'[t]) = 1
                 /\ Len(rec'[t][1].results) = ItemsToMap(t)
            /\ pc[t] = "done" => gil' # t
            \* while t is inside with_gil only t moves, but for a call of from
            \* that then waits
            /\ InsideWithGil(t) =>
                 \A u \in AllThreads \ {t} :
                     pc'[u] # pc[u] => (pc[u] = "idle" /\ pc'[u] = "with_gil")]_vars

C11_Witness ==
    \E t \in ConvertingThreads : \E u \in ConvertingThreads \ {t} :
        /\ pc[t] = "populate"
        /\ gil = t
        /\ ItemsToMap(t) = MaxItems
        /\ Len(list[t][1]) = 1
        /\ pc[u] = "with_gil"
        /\ blocked[u]
        /\ ItemsToMap(u) = 2
        /\ \E h \in HostThreads : pc[h] = "idle"
=============================================================================
